---- MODULE Spec2Model ----
(***************************************************************************)
(* A model of the cellular automaton engine of src/src/automata.py:        *)
(* the two neighbour counting functions, update_cells (one step, scanned   *)
(* cell by cell) and run (the driver with its print, display and persist   *)
(* sinks and the call of animate).                                         *)
(***************************************************************************)
EXTENDS Integers, Sequences, FiniteSets, TLC

VARIABLES
    cells,            \* run/update_cells: the grid, a function on Coords(nrows, ncols)
    nrows, ncols,     \* cells.shape
    survival, birth,  \* rules["S"], rules["B"]: tuples of integers
    boundaries,       \* run argument: "periodic", "solid" or anything else
    neighbours_func,  \* the counting function run has bound ("unbound" before)
    nsteps, print_steps, live_view, data_output, anim_output,   \* run arguments
    pc,               \* position in run or in update_cells
    i,                \* run: the step index (1 for the initial grid)
    error,            \* the exception that ended the run, or "none"
    stdout,           \* what print has written: <<step, grid>> pairs
    figure,           \* the grids handed to the live display
    file,             \* the lines of the file named by data_output
    animated,         \* the calls of animate: what it was given
    updated_cells, row, col, n,   \* update_cells: its locals
    old_cells,        \* history: the grid as it was when update_cells was entered
    last,             \* history: the cell update_cells has just decided
    steps,            \* animate: the grids it has read back from the file
    produced,         \* history: the grids produced so far, in order
    events            \* history: sink and step events, in order

vars == <<cells, nrows, ncols, survival, birth, boundaries, neighbours_func,
          nsteps, print_steps, live_view, data_output, anim_output, pc, i,
          error, stdout, figure, file, animated, updated_cells, row, col, n,
          old_cells, last, steps, produced, events>>

\* ------------------------------------------------------------------ bounds
MaxRows == 3
MaxCols == 3
MaxCells == 9
RunRows == 2
RunCols == 2
RunCells == 4
MaxSteps == 3
MaxApply == 2

\* ------------------------------------------------------------------ rules
\* src/cytomaton/rules.py: rule tables, tuples of neighbour counts
conway == [S |-> <<2, 3>>, B |-> <<3>>]
seeds == [S |-> <<>>, B |-> <<2>>]
gnarl == [S |-> <<1>>, B |-> <<1>>]
flakes == [S |-> <<0, 1, 2, 3, 4, 5, 6, 7, 8>>, B |-> <<3>>]

\* rule pairs no table names: nothing allowed, birth on 0 or 8 neighbours
no_rule == [S |-> <<>>, B |-> <<>>]
edge_rule == [S |-> <<8, 0>>, B |-> <<0, 4, 8>>]

\* the Conway counts with values no neighbour count can take among them
wide_rule == [S |-> <<-1, 2, 3, 9>>, B |-> <<3, 12, -4>>]

StepRules == {conway, seeds, gnarl, flakes, no_rule, edge_rule, wide_rule}
RunRules == {conway, no_rule, edge_rule}

\* ------------------------------------------------------------------ grids
Coords(R, C) == (0 .. R - 1) \X (0 .. C - 1)

Grids(R, C) == [Coords(R, C) -> {0, 1}]

\* mutant of In: the rule values are clamped into 0..8 before the comparison
In_clamped(x, t) == \E k \in 1 .. Len(t) : (IF t[k] < 0 THEN 0 ELSE IF t[k] > 8 THEN 8 ELSE t[k]) = x

\* Python's `x in t` on a tuple
In(x, t) == \E k \in 1 .. Len(t) : t[k] = x

\* numpy indexing with a possibly negative index: -1 is the last element
Idx(k, len) == IF k < 0 THEN k + len ELSE k

\* np.sum over the slice cells[rl:rh, cl:ch]
RECURSIVE np_sum(_, _)
np_sum(a, block) ==
    IF block = {} THEN 0
    ELSE LET p == CHOOSE q \in block : TRUE
         IN  a[p] + np_sum(a, block \ {p})

Max(a, b) == IF a >= b THEN a ELSE b
Min(a, b) == IF a <= b THEN a ELSE b

\* ------------------------------------------------------- neighbour counting
\* mutants of periodic_neighbours: the centre cell is added as a ninth term
periodic_neighbours_nine(a, nr, nc, r, c) ==
    LET N == (r + 1) % nr
        S == Idx(r - 1, nr)
        E == (c + 1) % nc
        W == Idx(c - 1, nc)
    IN  a[S, c] + a[N, c] + a[r, W] + a[r, E]
      + a[S, W] + a[S, E] + a[N, W] + a[N, E] + a[r, c]

\* the north and east neighbours are clamped to the grid instead of wrapped
periodic_neighbours_clamped(a, nr, nc, r, c) ==
    LET N == Min(r + 1, nr - 1)
        S == Idx(r - 1, nr)
        E == Min(c + 1, nc - 1)
        W == Idx(c - 1, nc)
    IN  a[S, c] + a[N, c] + a[r, W] + a[r, E]
      + a[S, W] + a[S, E] + a[N, W] + a[N, E]

\* the two diagonal terms on the south side are left out
periodic_neighbours_six(a, nr, nc, r, c) ==
    LET N == (r + 1) % nr
        S == Idx(r - 1, nr)
        E == (c + 1) % nc
        W == Idx(c - 1, nc)
    IN  a[S, c] + a[N, c] + a[r, W] + a[r, E] + a[N, W] + a[N, E]

periodic_neighbours(a, nr, nc, r, c) ==
    LET N == (r + 1) % nr
        S == Idx(r - 1, nr)
        E == (c + 1) % nc
        W == Idx(c - 1, nc)
    IN  a[S, c] + a[N, c] + a[r, W] + a[r, E]
      + a[S, W] + a[S, E] + a[N, W] + a[N, E]

\* mutant of solid_neighbours: the window reaches one row too far down
solid_neighbours_wide(a, nr, nc, r, c) ==
    LET rowlow == Max(0, r - 1)
        rowhigh == Min(nr, r + 3)
        collow == Max(0, c - 1)
        colhigh == Min(nc, c + 2)
    IN  np_sum(a, (rowlow .. rowhigh - 1) \X (collow .. colhigh - 1)) - a[r, c]

\* mutant of solid_neighbours: the centre cell is not subtracted
solid_neighbours_centre(a, nr, nc, r, c) ==
    LET rowlow == Max(0, r - 1)
        rowhigh == Min(nr, r + 2)
        collow == Max(0, c - 1)
        colhigh == Min(nc, c + 2)
    IN  np_sum(a, (rowlow .. rowhigh - 1) \X (collow .. colhigh - 1))

solid_neighbours(a, nr, nc, r, c) ==
    LET rowlow == Max(0, r - 1)
        rowhigh == Min(nr, r + 2)
        collow == Max(0, c - 1)
        colhigh == Min(nc, c + 2)
    IN  np_sum(a, (rowlow .. rowhigh - 1) \X (collow .. colhigh - 1)) - a[r, c]

\* the call neighbours_func(cells, nrows, ncols, row, col)
call_neighbours(f, a, nr, nc, r, c) ==
    IF f = "periodic_neighbours" THEN periodic_neighbours(a, nr, nc, r, c)
    ELSE solid_neighbours(a, nr, nc, r, c)

\* ------------------------------------------------------------- update_cells
\* np.zeros_like(cells)
zeros_like(a) == [p \in DOMAIN a |-> 0]

\* mutant of alive_next: a living cell stays alive whatever its count
alive_next_stay(cell, cnt, S, B) == cell # 0 \/ In(cnt, B)

\* mutant of alive_next: the birth counts are applied to living cells too
alive_next_birth(cell, cnt, S, B) == In(cnt, B) \/ (cell # 0 /\ In(cnt, S))

\* the condition of line 115: (cell and n in survival) or (not cell and n in birth)
alive_next(cell, cnt, S, B) == (cell # 0 /\ In(cnt, S)) \/ (cell = 0 /\ In(cnt, B))

\* mutant of write_cell: the neighbour count is stored instead of 1
write_cell_count(upd, a, nr, nc, S, B, f, r, c) ==
    IF alive_next(a[r, c], call_neighbours(f, a, nr, nc, r, c), S, B)
    THEN [upd EXCEPT ![r, c] = call_neighbours(f, a, nr, nc, r, c)]
    ELSE upd

\* the body of the loops for one cell: updated_cells after deciding (r, c)
write_cell(upd, a, nr, nc, S, B, f, r, c) ==
    IF alive_next(a[r, c], call_neighbours(f, a, nr, nc, r, c), S, B)
    THEN [upd EXCEPT ![r, c] = 1]
    ELSE upd

\* the two loops from the k-th cell of the row-major order on
RECURSIVE scan_from(_, _, _, _, _, _, _, _)
scan_from(k, upd, a, nr, nc, S, B, f) ==
    IF k >= nr * nc THEN upd
    ELSE scan_from(k + 1, write_cell(upd, a, nr, nc, S, B, f, k \div nc, k % nc),
                   a, nr, nc, S, B, f)

\* update_cells as a function of its arguments
update_cells(a, nr, nc, S, B, f) == scan_from(0, zeros_like(a), a, nr, nc, S, B, f)

\* update_cells, step by step: line 108
uc_alloc ==
    /\ pc = "uc_alloc"
    /\ updated_cells' = zeros_like(cells)
    /\ old_cells' = cells
    /\ row' = 0
    /\ col' = 0
    /\ pc' = IF nrows > 0 /\ ncols > 0 THEN "uc_scan" ELSE "uc_return"
    /\ UNCHANGED <<cells, nrows, ncols, survival, birth, boundaries, neighbours_func,
                   nsteps, print_steps, live_view, data_output, anim_output, i,
                   error, stdout, figure, file, animated, n, last, steps,
                   produced, events>>

\* mutant of uc_cell: the new value is written into the grid that is being read
uc_cell_in_place ==
    /\ pc = "uc_scan"
    /\ n' = call_neighbours(neighbours_func, cells, nrows, ncols, row, col)
    /\ cells' = [cells EXCEPT ![row, col] =
                    IF alive_next(cells[row, col], n', survival, birth) THEN 1 ELSE 0]
    /\ updated_cells' = [updated_cells EXCEPT ![row, col] = cells'[row, col]]
    /\ last' = <<row, col>>
    /\ IF col + 1 < ncols THEN /\ col' = col + 1
                               /\ UNCHANGED <<row, pc>>
       ELSE IF row + 1 < nrows THEN /\ row' = row + 1
                                    /\ col' = 0
                                    /\ UNCHANGED pc
       ELSE /\ pc' = "uc_return"
            /\ UNCHANGED <<row, col>>
    /\ UNCHANGED <<nrows, ncols, survival, birth, boundaries, neighbours_func,
                   nsteps, print_steps, live_view, data_output, anim_output, i,
                   error, stdout, figure, file, animated, old_cells, steps,
                   produced, events>>

\* lines 111-116 for the cell (row, col), and the move to the next cell
uc_cell ==
    /\ pc = "uc_scan"
    /\ n' = call_neighbours(neighbours_func, cells, nrows, ncols, row, col)
    /\ updated_cells' = write_cell(updated_cells, cells, nrows, ncols, survival,
                                   birth, neighbours_func, row, col)
    /\ last' = <<row, col>>
    /\ IF col + 1 < ncols THEN /\ col' = col + 1
                               /\ UNCHANGED <<row, pc>>
       ELSE IF row + 1 < nrows THEN /\ row' = row + 1
                                    /\ col' = 0
                                    /\ UNCHANGED pc
       ELSE /\ pc' = "uc_return"
            /\ UNCHANGED <<row, col>>
    /\ UNCHANGED <<cells, nrows, ncols, survival, birth, boundaries, neighbours_func,
                   nsteps, print_steps, live_view, data_output, anim_output, i,
                   error, stdout, figure, file, animated, old_cells, steps,
                   produced, events>>

\* line 118: updated_cells is returned, the argument is left as it was
uc_return ==
    /\ pc = "uc_return"
    /\ pc' = "uc_done"
    /\ UNCHANGED <<cells, nrows, ncols, survival, birth, boundaries, neighbours_func,
                   nsteps, print_steps, live_view, data_output, anim_output, i,
                   error, stdout, figure, file, animated, updated_cells, row, col,
                   n, old_cells, last, steps, produced, events>>

\* one call of update_cells on any grid within the bounds
InitStep ==
    /\ \E R \in 0 .. MaxRows, C \in 0 .. MaxCols :
          /\ R * C <= MaxCells
          /\ nrows = R
          /\ ncols = C
          /\ cells \in Grids(R, C)
    /\ \E rule \in StepRules : survival = rule.S /\ birth = rule.B
    /\ boundaries \in {"periodic", "solid"}
    /\ neighbours_func = IF boundaries = "periodic" THEN "periodic_neighbours"
                         ELSE "solid_neighbours"
    /\ nsteps = 0
    /\ print_steps = FALSE
    /\ live_view = FALSE
    /\ data_output = "None"
    /\ anim_output = "None"
    /\ pc = "uc_alloc"
    /\ i = 0
    /\ error = "none"
    /\ stdout = <<>>
    /\ figure = <<>>
    /\ file = <<>>
    /\ animated = <<>>
    /\ updated_cells = <<>>
    /\ row = 0
    /\ col = 0
    /\ n = 0
    /\ old_cells = <<>>
    /\ last = <<>>
    /\ steps = <<>>
    /\ produced = <<>>
    /\ events = <<>>

NextStep == uc_alloc \/ uc_cell \/ uc_return

SpecStep == InitStep /\ [][NextStep]_vars

\* ------------------------------------------------ properties of update_cells
\* the cells of the row-major order that the scan has already decided
Decided ==
    IF pc \in {"uc_return", "uc_done"} THEN Coords(nrows, ncols)
    ELSE IF pc = "uc_scan" THEN {p \in Coords(nrows, ncols) :
                                    p[1] * ncols + p[2] < row * ncols + col}
    ELSE {}

\* the rule of the claim for cell p, read on grid g with the count cnt
RuleSaysAlive(g, p, cnt) ==
    \/ g[p] = 1 /\ In(cnt, survival)
    \/ g[p] = 0 /\ In(cnt, birth)

\* x modulo m, for any integer x and m >= 1
Mod(x, m) == ((x % m) + m) % m

\* C1: update_cells returns a grid of the same dimensions in which cell (r,c) is 1
\* iff (old[r,c] = 1 and n in S) or (old[r,c] = 0 and n in B), n being the chosen
\* neighbour count of (r,c) on the old grid, and every other cell is 0.
C1_UpdateRule ==
    pc = "uc_done" =>
        /\ DOMAIN updated_cells = Coords(nrows, ncols)
        /\ DOMAIN updated_cells = DOMAIN old_cells
        /\ \A p \in Coords(nrows, ncols) :
              LET cnt == call_neighbours(neighbours_func, old_cells, nrows, ncols,
                                         p[1], p[2])
              IN  /\ updated_cells[p] \in {0, 1}
                  /\ updated_cells[p] = 1 <=> RuleSaysAlive(old_cells, p, cnt)

\* a 3x3 step in which one cell is born, one survives and one dies
C1_Witness ==
    /\ pc = "uc_done"
    /\ nrows = 3
    /\ ncols = 3
    /\ \E p \in Coords(3, 3) : old_cells[p] = 0 /\ updated_cells[p] = 1
    /\ \E p \in Coords(3, 3) : old_cells[p] = 1 /\ updated_cells[p] = 1
    /\ \E p \in Coords(3, 3) : old_cells[p] = 1 /\ updated_cells[p] = 0

\* C2: during one step update_cells never changes the grid it was given: at every
\* point of the row-major scan the old grid equals its value at the start of the
\* step, the count just used was read from that snapshot, and every cell already
\* written holds the value the rule gives on the snapshot.
C2_SnapshotUnchanged ==
    pc \in {"uc_scan", "uc_return", "uc_done"} =>
        /\ cells = old_cells
        /\ last # <<>> =>
              n = call_neighbours(neighbours_func, old_cells, nrows, ncols,
                                  last[1], last[2])
        /\ \A p \in Decided :
              updated_cells[p] = 1 <=>
                  RuleSaysAlive(old_cells, p,
                      call_neighbours(neighbours_func, old_cells, nrows, ncols,
                                      p[1], p[2]))

\* mid-scan: the cell just written has changed and the next cell is its neighbour
C2_Witness ==
    /\ pc = "uc_scan"
    /\ last # <<>>
    /\ updated_cells[last] # cells[last]
    /\ row = last[1]
    /\ col = last[2] + 1

\* C7: on every grid with rows >= 1 and cols >= 1, for every cell and both modes,
\* the neighbour count is an integer between 0 and 8 inclusive.
C7_CountRange ==
    /\ last # <<>> => n \in 0 .. 8
    /\ \A p \in Coords(nrows, ncols) :
          /\ periodic_neighbours(cells, nrows, ncols, p[1], p[2]) \in 0 .. 8
          /\ solid_neighbours(cells, nrows, ncols, p[1], p[2]) \in 0 .. 8

\* the 1x1 grid with its cell alive: the periodic count reaches 8
C7_Witness ==
    /\ nrows = 1
    /\ ncols = 1
    /\ last = <<0, 0>>
    /\ n = 8

\* the eight offsets of the Moore neighbourhood
Offsets == ({-1, 0, 1} \X {-1, 0, 1}) \ {<<0, 0>>}

\* the sum over the offsets in D of g[(r + dr) mod rows, (c + dc) mod cols]
RECURSIVE TorusSum(_, _, _, _)
TorusSum(g, r, c, D) ==
    IF D = {} THEN 0
    ELSE LET d == CHOOSE e \in D : TRUE
         IN  g[Mod(r + d[1], nrows), Mod(c + d[2], ncols)]
             + TorusSum(g, r, c, D \ {d})

\* C8: periodic_neighbours returns the sum over the 8 offsets (dr,dc) other than
\* (0,0) of grid[(r+dr) mod rows, (c+dc) mod cols]: 8 terms for every cell, a cell
\* that several offsets wrap onto being counted once per offset.
C8_PeriodicSum ==
    (neighbours_func = "periodic_neighbours" /\ last # <<>>) =>
        n = TorusSum(cells, last[1], last[2], Offsets)

\* a dead cell of a 1x3 grid between two living cells: each is counted 3 times
C8_Witness ==
    /\ neighbours_func = "periodic_neighbours"
    /\ nrows = 1
    /\ ncols = 3
    /\ last = <<0, 1>>
    /\ cells[0, 1] = 0
    /\ n = 6

\* the living Moore neighbours of (r, c) that lie inside the grid
LivingInside(g, r, c) ==
    {q \in Coords(nrows, ncols) :
        /\ q # <<r, c>>
        /\ q[1] - r \in {-1, 0, 1}
        /\ q[2] - c \in {-1, 0, 1}
        /\ g[q] = 1}

\* C9: solid_neighbours returns the number of alive cells among the Moore
\* neighbours of (r,c) that lie inside the grid, not counting (r,c) itself.
C9_SolidCount ==
    (neighbours_func = "solid_neighbours" /\ last # <<>>) =>
        n = Cardinality(LivingInside(cells, last[1], last[2]))

\* a living corner cell of a 3x3 grid with its three neighbours alive
C9_Witness ==
    /\ neighbours_func = "solid_neighbours"
    /\ nrows = 3
    /\ ncols = 3
    /\ last = <<0, 0>>
    /\ cells[0, 0] = 1
    /\ n = 3

\* np.roll by a rows and b columns: cell (r, c) moves to ((r+a) mod rows, (c+b) mod cols)
Rotated(g, a, b) ==
    [p \in DOMAIN g |-> g[Mod(p[1] - a, nrows), Mod(p[2] - b, ncols)]]

\* C10: the periodic count of cell ((r+a) mod rows, (c+b) mod cols) in the grid
\* rotated by (a,b) equals the periodic count of (r,c) in the original grid.
C10_RotationInvariant ==
    (neighbours_func = "periodic_neighbours" /\ last # <<>>) =>
        \A a \in -nrows .. nrows, b \in -ncols .. ncols :
            periodic_neighbours(Rotated(cells, a, b), nrows, ncols,
                                Mod(last[1] + a, nrows), Mod(last[2] + b, ncols)) = n

\* a 3x3 grid that its rotation by (1,1) changes, counted at a corner
C10_Witness ==
    /\ neighbours_func = "periodic_neighbours"
    /\ nrows = 3
    /\ ncols = 3
    /\ last = <<0, 0>>
    /\ n \in 1 .. 7
    /\ Rotated(cells, 1, 1) # cells

\* ---------------------------------------------------------------------- run
\* the variables update_cells' step-by-step form uses; run calls it as a whole
scan_vars == <<updated_cells, row, col, n, old_cells, last>>

\* the arguments of run and what it derives from them once
run_args == <<nrows, ncols, survival, birth, boundaries, nsteps, print_steps,
              live_view, data_output, anim_output>>

\* "%i" applied to one cell
fmt_i(v) == IF v = 0 THEN "0" ELSE "1"

\* np.savetxt(f, cells, fmt="%i", footer=" "): one line per row, then the footer,
\* which is written as a comment line
savetxt(a, nr, nc) ==
    [k \in 1 .. nr |-> [comment |-> FALSE,
                        vals |-> [j \in 1 .. nc |-> fmt_i(a[k - 1, j - 1])]]]
    \o <<[comment |-> TRUE, vals |-> <<>>]>>

\* mutant of sink_order: the grid is persisted before it is displayed
sink_order_swapped == <<"print", "persist", "display">>

\* the order of the three blocks that follow each grid: lines 248, 252, 258 for
\* the first grid and lines 266, 270, 276 in the loop
sink_order == <<"print", "display", "persist">>

\* the block run enters after `block`: the next sink, or the head of the loop
after(block) ==
    LET k == CHOOSE j \in 1 .. Len(sink_order) : sink_order[j] = block
    IN  IF k = Len(sink_order) THEN "loop" ELSE sink_order[k + 1]

\* mutant of select_neighbours: an unknown mode falls back to solid boundaries
select_neighbours_default(b, f) ==
    IF b = "periodic" THEN "periodic_neighbours" ELSE "solid_neighbours"

\* lines 235-238: the if/elif on boundaries; there is no else branch, so any
\* other value leaves neighbours_func as it was (f): unbound
select_neighbours(b, f) ==
    IF b = "periodic" THEN "periodic_neighbours"
    ELSE IF b = "solid" THEN "solid_neighbours"
    ELSE f

\* lines 227-245: shape, rules, the counting function, the warm-up call of
\* update_cells on a 3x3 grid of zeros (its result is dropped). With a boundary
\* mode that is neither "periodic" nor "solid" no branch binds neighbours_func and
\* the warm-up call raises UnboundLocalError.
configure ==
    /\ pc = "idle"
    /\ neighbours_func' = select_neighbours(boundaries, neighbours_func)
    /\ IF neighbours_func' = "unbound"
       THEN /\ error' = "UnboundLocalError"
            /\ pc' = "error"
            /\ UNCHANGED <<i, produced>>
       ELSE /\ pc' = sink_order[1]
            /\ i' = 1
            /\ produced' = <<cells>>
            /\ UNCHANGED error
    /\ UNCHANGED <<cells, run_args, stdout, figure, file, animated, steps, events,
                   scan_vars>>

\* lines 248-250 and 266-268: print the step index and the grid, if enabled
print_step ==
    /\ pc = "print"
    /\ IF print_steps
       THEN /\ stdout' = Append(stdout, [step |-> i, grid |-> cells])
            /\ events' = Append(events, [ev |-> "print", step |-> i])
       ELSE UNCHANGED <<stdout, events>>
    /\ pc' = after("print")
    /\ UNCHANGED <<cells, run_args, neighbours_func, i, error, figure, file,
                   animated, steps, produced, scan_vars>>

\* lines 252-256 and 270-274: the live display, if enabled. For the first grid the
\* figure is created with figsize ((ncols/nrows)*8, 8): the division raises for
\* nrows = 0, and a figure of width 0 (ncols = 0) is left to the plotting library,
\* which may take it or refuse it.
display_step ==
    /\ pc = "display"
    /\ IF ~live_view
       THEN /\ pc' = after("display")
            /\ UNCHANGED <<figure, events, error>>
       ELSE IF i = 1 /\ nrows = 0
       THEN /\ error' = "ZeroDivisionError"
            /\ pc' = "error"
            /\ UNCHANGED <<figure, events>>
       ELSE \/ /\ figure' = Append(figure, cells)
               /\ events' = Append(events, [ev |-> "display", step |-> i])
               /\ pc' = after("display")
               /\ UNCHANGED error
            \/ /\ i = 1
               /\ ncols = 0
               /\ error' = "ValueError"
               /\ pc' = "error"
               /\ UNCHANGED <<figure, events>>
    /\ UNCHANGED <<cells, run_args, neighbours_func, i, stdout, file, animated,
                   steps, produced, scan_vars>>

\* what a failed write leaves in the file: open may fail (the file is as it was),
\* or the write may fail after open has truncated the file ("w", first grid) or
\* after some of the new lines have been appended
after_failed_write(old, new, first) ==
    {old} \cup {(IF first THEN <<>> ELSE old) \o SubSeq(new, 1, j) :
                    j \in 0 .. Len(new) - 1}

\* mutant of persist_step: the failure is swallowed and the run goes on
persist_step_swallow ==
    /\ pc = "persist"
    /\ IF data_output = "None"
       THEN /\ pc' = after("persist")
            /\ UNCHANGED <<file, events, error>>
       ELSE \/ /\ file' = IF i = 1 THEN savetxt(cells, nrows, ncols)
                          ELSE file \o savetxt(cells, nrows, ncols)
               /\ events' = Append(events, [ev |-> "persist", step |-> i])
               /\ pc' = after("persist")
               /\ UNCHANGED error
            \/ /\ error' = "OSError"
               /\ pc' = after("persist")
               /\ UNCHANGED <<file, events>>
    /\ UNCHANGED <<cells, run_args, neighbours_func, i, stdout, figure, animated,
                   steps, produced, scan_vars>>

\* lines 258-260 and 276-278: the grid is written to the file, opened with "w" for
\* the first grid and with "a" for the later ones; open or write may fail, and the
\* exception is not caught
persist_step ==
    /\ pc = "persist"
    /\ IF data_output = "None"
       THEN /\ pc' = after("persist")
            /\ UNCHANGED <<file, events, error>>
       ELSE \/ /\ file' = IF i = 1 THEN savetxt(cells, nrows, ncols)
                          ELSE file \o savetxt(cells, nrows, ncols)
               /\ events' = Append(events, [ev |-> "persist", step |-> i])
               /\ pc' = after("persist")
               /\ UNCHANGED error
            \/ /\ file' \in after_failed_write(file, savetxt(cells, nrows, ncols),
                                               i = 1)
               /\ error' = "OSError"
               /\ pc' = "error"
               /\ UNCHANGED events
    /\ UNCHANGED <<cells, run_args, neighbours_func, i, stdout, figure, animated,
                   steps, produced, scan_vars>>

\* mutant of loop_has_next: the loop is range(2, nsteps)
loop_has_next_short(idx, ns) == idx + 1 < ns

\* mutant of loop_has_next: the loop is range(1, nsteps + 1)
loop_has_next_from_one(idx, ns) == idx <= ns

\* line 263: after the grid of step idx, range(2, nsteps + 1) yields idx + 1
loop_has_next(idx, ns) == idx + 1 <= ns

\* lines 263-264: the next step of the loop: cells = update_cells(...)
loop_step ==
    /\ pc = "loop"
    /\ loop_has_next(i, nsteps)
    /\ i' = i + 1
    /\ cells' = update_cells(cells, nrows, ncols, survival, birth, neighbours_func)
    /\ produced' = Append(produced, cells')
    /\ events' = Append(events, [ev |-> "update", step |-> i'])
    /\ pc' = sink_order[1]
    /\ UNCHANGED <<run_args, neighbours_func, error, stdout, figure, file, animated,
                   steps, scan_vars>>

\* lines 280-291: the loop is over: time summary, the figure is closed, and
\* animate is called iff anim_output is given
loop_exit ==
    /\ pc = "loop"
    /\ ~loop_has_next(i, nsteps)
    /\ pc' = IF anim_output # "None" THEN "animate" ELSE "done"
    /\ UNCHANGED <<cells, run_args, neighbours_func, i, error, stdout, figure, file,
                   animated, steps, produced, events, scan_vars>>

\* ------------------------------------------------------------------ animate
\* what np.loadtxt keeps of a file: comment lines and blank lines are skipped
data_lines(lines) == SelectSeq(lines, LAMBDA l : ~l.comment /\ Len(l.vals) > 0)

\* the number a field of the file is read as
parse_num(t) == IF t = "0" THEN 0 ELSE 1

\* the dimensions of the array np.loadtxt returns: no data gives an empty 1-d
\* array, and a single row or a single column is squeezed away
loadtxt_ndim(lines) ==
    LET d == data_lines(lines)
    IN  IF Len(d) = 0 THEN 1
        ELSE 2 - (IF Len(d) = 1 THEN 1 ELSE 0) - (IF Len(d[1].vals) = 1 THEN 1 ELSE 0)

\* data[lo:hi, :] of a 2-d array, as a grid: the slice is cut at the end of data
data_slice(lines, lo, hi) ==
    LET d == data_lines(lines)
        top == Min(hi, Len(d))
        cnt == Max(top - lo, 0)
        wid == IF Len(d) = 0 THEN 0 ELSE Len(d[1].vals)
    IN  [p \in Coords(cnt, wid) |-> parse_num(d[lo + p[1] + 1].vals[p[2] + 1])]

\* line 294 and animate, lines 148-172: the file is loaded (np.loadtxt(None)
\* raises), cut into nsteps blocks of nrows rows (indexing data[a:b, :] raises on
\* an array of fewer than 2 dimensions), the figure is created with figsize
\* ((ncols/nrows)*8, 8), and the animation is rendered and saved, which may fail.
animate ==
    /\ pc = "animate"
    /\ animated' = Append(animated, [nsteps |-> nsteps, data_output |-> data_output,
                                     file |-> file])
    /\ events' = Append(events, [ev |-> "animate", step |-> i])
    /\ IF data_output = "None"
       THEN /\ error' = "LoadError"
            /\ pc' = "error"
            /\ UNCHANGED steps
       ELSE IF nsteps >= 1 /\ loadtxt_ndim(file) < 2
       THEN /\ error' = "IndexError"
            /\ pc' = "error"
            /\ UNCHANGED steps
       ELSE /\ steps' = [k \in 1 .. nsteps |->
                            data_slice(file, (k - 1) * nrows, k * nrows)]
            /\ IF nrows = 0
               THEN /\ error' = "ZeroDivisionError"
                    /\ pc' = "error"
               ELSE \/ /\ pc' = "done"
                       /\ UNCHANGED error
                    \/ /\ error' = "RenderError"
                       /\ pc' = "error"
    /\ UNCHANGED <<cells, run_args, neighbours_func, i, stdout, figure, file,
                   produced, scan_vars>>

\* a file left at the path of data_output by an earlier run
stale_file == savetxt([p \in Coords(1, 1) |-> 1], 1, 1)

\* a call of run with any arguments within the bounds
Init ==
    /\ \E R \in 0 .. RunRows, C \in 0 .. RunCols :
          /\ R * C <= RunCells
          /\ nrows = R
          /\ ncols = C
          /\ cells \in Grids(R, C)
    /\ \E rule \in RunRules : survival = rule.S /\ birth = rule.B
    /\ boundaries \in {"periodic", "solid", "reflecting"}
    /\ neighbours_func = "unbound"
    /\ nsteps \in 0 .. MaxSteps
    /\ print_steps \in BOOLEAN
    /\ live_view \in BOOLEAN
    /\ data_output \in {"None", "data.out"}
    /\ anim_output \in {"None", "anim.gif"}
    /\ pc = "idle"
    /\ i = 0
    /\ error = "none"
    /\ stdout = <<>>
    /\ figure = <<>>
    /\ file \in IF data_output = "None" THEN {<<>>} ELSE {<<>>, stale_file}
    /\ animated = <<>>
    /\ updated_cells = <<>>
    /\ row = 0
    /\ col = 0
    /\ n = 0
    /\ old_cells = <<>>
    /\ last = <<>>
    /\ steps = <<>>
    /\ produced = <<>>
    /\ events = <<>>

Next ==
    \/ configure
    \/ print_step
    \/ display_step
    \/ persist_step
    \/ loop_step
    \/ loop_exit
    \/ animate

Spec == Init /\ [][Next]_vars

\* run is sequential code: a statement that can execute does execute
SpecFair == Spec /\ WF_vars(Next)

\* ----------------------------------------------------------- properties of run
\* the positions of events at which the event e stands
At(e) == {p \in 1 .. Len(events) : events[p] = e}

\* the sinks the arguments of run enable
EnabledSinks ==
    (IF print_steps THEN {"print"} ELSE {})
    \cup (IF live_view THEN {"display"} ELSE {})
    \cup (IF data_output # "None" THEN {"persist"} ELSE {})

\* the place of a sink in the order print, live display, persistent log
Rank(s) == CASE s = "print" -> 1 [] s = "display" -> 2 [] s = "persist" -> 3

\* the step indices of the applications of the step function, in order
UpdateSteps == SelectSeq([p \in 1 .. Len(events) |-> IF events[p].ev = "update"
                                                       THEN events[p].step ELSE 0],
                         LAMBDA x : x # 0)

\* C3 as stated: for every nsteps, 0 and 1 included, a run that completes produces
\* exactly nsteps grids in total.
C3_AsStated == pc = "done" => Len(produced) = nsteps

\* C3 (amended): a run that completes produces exactly max(nsteps, 1) grids: the
\* initial grid as step 1, which is produced whatever nsteps is, plus one grid per
\* application of the step function, with step indices 2..nsteps; so exactly
\* nsteps grids for every nsteps >= 1, and one grid for nsteps = 0.
C3_GridCount ==
    pc = "done" =>
        /\ Len(produced) = Max(nsteps, 1)
        /\ UpdateSteps = [k \in 1 .. Max(nsteps, 1) - 1 |-> k + 1]
        /\ print_steps =>
              stdout = [k \in 1 .. Max(nsteps, 1) |-> [step |-> k, grid |-> produced[k]]]

\* a completed run of 3 steps in which the grid changes at every step
C3_Witness ==
    /\ pc = "done"
    /\ nsteps = 3
    /\ Len(produced) = 3
    /\ produced[2] # produced[1]
    /\ produced[3] # produced[2]

\* C4: every produced grid is offered to the enabled sinks in the order print,
\* live display, persistent log, and the step function for step i+1 is not started
\* until the grid of step i has been handed to every enabled sink.
C4_SinkOrder ==
    /\ \A p, q \in 1 .. Len(events) :
          (p < q /\ events[p].ev \in EnabledSinks /\ events[q].ev \in EnabledSinks) =>
              \/ events[p].step < events[q].step
              \/ /\ events[p].step = events[q].step
                 /\ Rank(events[p].ev) < Rank(events[q].ev)
    /\ \A q \in 1 .. Len(events) :
          events[q].ev = "update" =>
              \A s \in EnabledSinks :
                  \E p \in 1 .. q - 1 :
                      events[p] = [ev |-> s, step |-> events[q].step - 1]
    /\ pc \in {"loop", "animate", "done"} =>
          \A s \in EnabledSinks : At([ev |-> s, step |-> i]) # {}
    /\ \A k \in 1 .. Len(stdout) : stdout[k].grid = produced[stdout[k].step]
    /\ \A k \in 1 .. Len(figure) : figure[k] = produced[k]

\* all three sinks are enabled and the step function has been applied twice
C4_Witness ==
    /\ print_steps
    /\ live_view
    /\ data_output # "None"
    /\ pc = "loop"
    /\ i = 3
    /\ Len(events) = 11

\* C5 as stated: with zero rows or zero columns run fails before any step runs: no
\* grid is printed, displayed or persisted, the step function is never applied to
\* the caller's grid, and the run does not end normally.
C5_ZeroDimFailsFast ==
    (nrows = 0 \/ ncols = 0) =>
        /\ stdout = <<>>
        /\ figure = <<>>
        /\ \A p \in 1 .. Len(events) : events[p].ev \notin {"persist", "update"}
        /\ pc # "done"

\* the file that holds the grids of gs, in order, as savetxt writes them
RECURSIVE SavedLog(_)
SavedLog(gs) ==
    IF gs = <<>> THEN <<>>
    ELSE savetxt(Head(gs), nrows, ncols) \o SavedLog(Tail(gs))

\* C6 as stated: whenever run invokes animate, for every combination of
\* data_output and anim_output, a log has been written that holds exactly the
\* nsteps grids of this run in step order.
C6_LogCompleteAtAnimate ==
    \A k \in 1 .. Len(animated) :
        /\ animated[k].data_output # "None"
        /\ Len(produced) = nsteps
        /\ animated[k].file = SavedLog(produced)

\* C11 as stated: after a completed run with persistence enabled, reading the log
\* back as animate does (np.loadtxt, then grid k = rows (k-1)*nrows .. k*nrows - 1)
\* succeeds and yields exactly nsteps grids of shape R x C, equal to the grids
\* produced and in the same order (stated for grids with R >= 1 and C >= 1).
C11_RoundTrip ==
    (nrows >= 1 /\ ncols >= 1) =>
        /\ (pc \in {"animate", "done"} /\ data_output # "None") =>
              /\ nsteps >= 1 => loadtxt_ndim(file) = 2
              /\ \A k \in 1 .. nsteps :
                    data_slice(file, (k - 1) * nrows, k * nrows) = produced[k]
        /\ error # "IndexError"

\* C12: with a boundary mode other than "periodic" or "solid" run fails at
\* configuration time: no counting strategy is chosen by default, the run ends in
\* an error, and no grid is printed, displayed, persisted or evolved before it.
C12_InvalidBoundary ==
    boundaries \notin {"periodic", "solid"} =>
        /\ neighbours_func = "unbound"
        /\ pc \in {"idle", "error"}
        /\ pc = "error" => error = "UnboundLocalError"
        /\ stdout = <<>>
        /\ figure = <<>>
        /\ events = <<>>
        /\ produced = <<>>
        /\ animated = <<>>
        /\ file \in {<<>>, stale_file}

\* a run with an unknown mode and every sink enabled has ended in the error
C12_Witness ==
    /\ boundaries = "reflecting"
    /\ pc = "error"
    /\ error = "UnboundLocalError"
    /\ print_steps
    /\ live_view
    /\ data_output # "None"
    /\ anim_output # "None"
    /\ nsteps = 3

\* a is an initial part of b
IsPrefix(a, b) == Len(a) <= Len(b) /\ SubSeq(b, 1, Len(a)) = a

\* C13: if a sink fails while handling the grid of step k the run stops at once:
\* no grid of a later step is computed or offered to any sink (nothing changes
\* once an error is raised), the grids appended to the log for the steps before k
\* remain in it unchanged, and the renderer is never invoked.
C13_SinkFailureStops ==
    [][/\ error # "none" => UNCHANGED vars
       /\ (error = "none" /\ error' # "none" /\ pc \in {"display", "persist"}) =>
             /\ pc' = "error"
             /\ UNCHANGED <<cells, i, produced, stdout, figure, animated, events>>
             /\ animated = <<>>
             /\ (pc = "persist" /\ i > 1) =>
                   /\ file = SavedLog(SubSeq(produced, 1, i - 1))
                   /\ IsPrefix(file, file')]_vars

\* the write of the second grid has failed half way in a run of 3 steps that was
\* to be animated: the first grid and a part of the second are in the file
C13_Witness ==
    /\ pc = "error"
    /\ error = "OSError"
    /\ i = 2
    /\ nsteps = 3
    /\ anim_output # "None"
    /\ Len(file) > Len(SavedLog(<<produced[1]>>))
    /\ animated = <<>>

\* the loop of run is over (Done): the time summary or animate is next, or past
LoopDone == pc \in {"animate", "done"} \/ animated # <<>>

C15_BinaryFixedShape ==
    /\ DOMAIN cells = Coords(nrows, ncols)
    /\ \A p \in DOMAIN cells : cells[p] \in {0, 1}
    /\ \A k \in 1 .. Len(produced) :
          /\ DOMAIN produced[k] = DOMAIN produced[1]
          /\ DOMAIN produced[k] = DOMAIN cells
          /\ \A p \in DOMAIN produced[k] : produced[k][p] \in {0, 1}

\* the third grid of a run on a 2x2 grid: it differs from the first and has a
\* living cell
C15_Witness ==
    /\ nrows = 2
    /\ ncols = 2
    /\ i = 3
    /\ cells # produced[1]
    /\ \E p \in DOMAIN cells : cells[p] = 1

\* C16: with S and B both empty every application of the step function yields an
\* all-dead grid, for every input grid and both modes; with S empty a cell that is
\* alive before a step is alive after it only if its count is in B, and in fact
\* never: a living cell is not looked up in B, so it never survives.
C16_EmptySurvival ==
    pc = "uc_done" =>
        /\ (survival = <<>> /\ birth = <<>>) =>
              \A p \in Coords(nrows, ncols) : updated_cells[p] = 0
        /\ survival = <<>> =>
              \A p \in Coords(nrows, ncols) :
                  /\ (old_cells[p] = 1 /\ updated_cells[p] = 1) =>
                        In(call_neighbours(neighbours_func, old_cells, nrows, ncols,
                                           p[1], p[2]), birth)
                  /\ old_cells[p] = 1 => updated_cells[p] = 0

\* the seeds rule on a 3x3 grid: a living cell whose count is in B dies, and a
\* dead cell is born
C16_Witness ==
    /\ pc = "uc_done"
    /\ survival = <<>>
    /\ birth # <<>>
    /\ nrows = 3
    /\ ncols = 3
    /\ \E p \in Coords(3, 3) :
          /\ old_cells[p] = 1
          /\ In(call_neighbours(neighbours_func, old_cells, 3, 3, p[1], p[2]), birth)
          /\ updated_cells[p] = 0
    /\ \E p \in Coords(3, 3) : old_cells[p] = 0 /\ updated_cells[p] = 1

\* ------------------------------------------------- repeated application
\* line 264, cells = update_cells(cells, ...): the grid returned becomes the
\* grid of the next application
uc_again ==
    /\ pc = "uc_done"
    /\ Len(produced) + 1 < MaxApply
    /\ cells' = updated_cells
    /\ produced' = Append(produced, cells)
    /\ last' = <<>>
    /\ pc' = "uc_alloc"
    /\ UNCHANGED <<nrows, ncols, survival, birth, boundaries, neighbours_func,
                   nsteps, print_steps, live_view, data_output, anim_output, i,
                   error, stdout, figure, file, animated, updated_cells, row, col,
                   n, old_cells, steps, events>>

\* the Conway rule applied again and again to any grid within the bounds
InitIter == InitStep /\ survival = conway.S /\ birth = conway.B

NextIter == uc_alloc \/ uc_cell \/ uc_return \/ uc_again

SpecIter == InitIter /\ [][NextIter]_vars

\* the 3x3 grid whose three rows are each [0,1,0], and its transpose
Blinker == [p \in Coords(3, 3) |-> IF p[2] = 1 THEN 1 ELSE 0]
BlinkerT == [p \in Coords(3, 3) |-> IF p[1] = 1 THEN 1 ELSE 0]

\* the second application of the periodic Conway step to a blinker has returned
BlinkerTwice ==
    /\ pc = "uc_done"
    /\ neighbours_func = "periodic_neighbours"
    /\ Len(produced) = 1
    /\ produced[1] \in {Blinker, BlinkerT}

\* C17 as stated: on a 3x3 grid under periodic boundaries with the Conway rule the
\* 3-cell blinker returns to itself after 2 steps: step(step(g)) = g.
C17_AsStated == BlinkerTwice => updated_cells = produced[1]

\* C17 (amended): on a 3x3 grid under periodic boundaries with the Conway rule the
\* 3-cell blinker does not return to itself: the line of 3 wraps onto itself, the
\* first step gives the all-alive grid and the second the all-dead grid.
C17_BlinkerDies ==
    /\ BlinkerTwice =>
          /\ cells = [p \in Coords(3, 3) |-> 1]
          /\ updated_cells = [p \in Coords(3, 3) |-> 0]
    /\ (pc = "uc_done" /\ neighbours_func = "periodic_neighbours"
        /\ produced = <<>> /\ cells \in {Blinker, BlinkerT}) =>
          updated_cells = [p \in Coords(3, 3) |-> 1]

\* two steps from the blinker have been taken and the grid is dead
C17_Witness ==
    /\ BlinkerTwice
    /\ produced[1] = Blinker
    /\ updated_cells = [p \in Coords(3, 3) |-> 0]

\* the four corner cells of the grid
Corners == {0, nrows - 1} \X {0, ncols - 1}

\* C18: on every R x C binary grid with R >= 2 and C >= 2 the solid neighbour
\* count of each of the four corner cells never exceeds 3.
C18_SolidCorner ==
    (nrows >= 2 /\ ncols >= 2) =>
        /\ (neighbours_func = "solid_neighbours" /\ last \in Corners) => n <= 3
        /\ \A p \in Corners : solid_neighbours(cells, nrows, ncols, p[1], p[2]) <= 3

\* the last corner of a 3x3 grid, counted with its three neighbours alive
C18_Witness ==
    /\ neighbours_func = "solid_neighbours"
    /\ nrows = 3
    /\ ncols = 3
    /\ last = <<2, 2>>
    /\ n = 3

\* integers outside 0..8, and a tuple without its values outside 0..8
Outside == <<-9, -1, 9, 10, 17>>
InRange(t) == SelectSeq(t, LAMBDA x : x \in 0 .. 8)

\* C19: rule values outside 0..8 are inert: for every grid and both modes, adding
\* to S or to B any integers outside 0..8 leaves the result of update_cells
\* unchanged (so does removing those a rule has), and no error is raised.
C19_OutsideInert ==
    pc = "uc_done" =>
        /\ updated_cells = update_cells(old_cells, nrows, ncols, survival \o Outside,
                                        birth, neighbours_func)
        /\ updated_cells = update_cells(old_cells, nrows, ncols, survival,
                                        birth \o Outside, neighbours_func)
        /\ updated_cells = update_cells(old_cells, nrows, ncols, InRange(survival),
                                        InRange(birth), neighbours_func)
        /\ error = "none"

\* a step with values outside 0..8 in both tuples, on a 3x3 grid that has cells
\* with 0 and with 8 neighbours, in which a cell is born and a cell survives
C19_Witness ==
    /\ pc = "uc_done"
    /\ InRange(survival) # survival
    /\ InRange(birth) # birth
    /\ nrows = 3
    /\ ncols = 3
    /\ \E p \in Coords(3, 3) : old_cells[p] = 0 /\ updated_cells[p] = 1
    /\ \E p \in Coords(3, 3) : old_cells[p] = 1 /\ updated_cells[p] = 1

\* the cells that are not on the first or last row or column
Interior ==
    {p \in Coords(nrows, ncols) :
        0 < p[1] /\ p[1] < nrows - 1 /\ 0 < p[2] /\ p[2] < ncols - 1}

\* the counting function run did not choose
OtherFunc ==
    IF neighbours_func = "periodic_neighbours" THEN "solid_neighbours"
    ELSE "periodic_neighbours"

\* C20: on every binary grid with rows >= 3 and cols >= 3, periodic_neighbours and
\* solid_neighbours return the same count for every interior cell, so the next
\* state under the two boundary modes can differ on the border cells only.
C20_InteriorAgree ==
    (nrows >= 3 /\ ncols >= 3) =>
        /\ last \in Interior =>
              n = call_neighbours(OtherFunc, cells, nrows, ncols, last[1], last[2])
        /\ \A p \in Interior :
              periodic_neighbours(cells, nrows, ncols, p[1], p[2])
                  = solid_neighbours(cells, nrows, ncols, p[1], p[2])
        /\ pc = "uc_done" =>
              \A p \in Interior :
                  updated_cells[p] = update_cells(old_cells, nrows, ncols, survival,
                                                  birth, OtherFunc)[p]

\* the centre of a 3x3 grid has been counted, the centre is alive, and the two
\* functions disagree at a corner of the same grid
C20_Witness ==
    /\ nrows = 3
    /\ ncols = 3
    /\ last = <<1, 1>>
    /\ cells[1, 1] = 1
    /\ n \in 1 .. 8
    /\ periodic_neighbours(cells, 3, 3, 0, 0) # solid_neighbours(cells, 3, 3, 0, 0)

====
